---- MODULE Spec2Model ----
(***************************************************************************)
(* Model of the target-size search of autosize (src/src/main.rs):          *)
(* find_largest_within_image and find_largest_within_gif.  Scale factors   *)
(* are exact rationals <<n, d>> (d > 0, lowest terms); byte sizes are      *)
(* integers.  The codec is a deterministic function of the scale that is   *)
(* discovered lazily (enc) and is weakly monotone in the scale.            *)
(***************************************************************************)
EXTENDS Integers, Sequences, FiniteSets, TLC

\* ---------------------------------------------------------------- bounds
MaxIter == 2                     \* the iteration ceiling m handed to the search
MaxCycles == MaxIter + 2         \* cap of the model on the encodings of one call

\* ---------------------------------------------------------------- inputs
ImgW == 16                       \* img.width()
ImgH == 16                       \* img.height()
NFrames == 4                     \* frames of the gif
F64_MAX == 1000000000            \* f64::MAX: above every byte size of the model

Kinds      == {"image", "gif"}
TargetSet  == {420}
ToleranceSet == {0, 10}
OsizeSet   == {300, 419, 420, 425, 1024}
EncSizes   == {100, 410, 420, 425, 1024}

\* ------------------------------------------------------- rational numbers
Abs(x) == IF x < 0 THEN -x ELSE x

\* Euclid's algorithm, as a function so that every step works on values
Euclid[p \in Nat \X Nat] == IF p[2] = 0 THEN p[1] ELSE Euclid[<<p[2], p[1] % p[2]>>]
GCD(x, y) == Euclid[<<x, y>>]

Rat(n, d) ==
    LET s == IF d < 0 THEN -1 ELSE 1
        g == GCD(Abs(n), Abs(d))
    IN  IF n = 0 THEN <<0, 1>> ELSE <<(s * n) \div g, (s * d) \div g>>

Zero == <<0, 1>>
One  == <<1, 1>>

RAdd(x, y) == Rat(x[1] * y[2] + y[1] * x[2], x[2] * y[2])
RSub(x, y) == Rat(x[1] * y[2] - y[1] * x[2], x[2] * y[2])
RDiv(x, y) == Rat(x[1] * y[2], x[2] * y[1])
RLt(x, y)  == x[1] * y[2] < y[1] * x[2]
RLe(x, y)  == x[1] * y[2] <= y[1] * x[2]
RAbs(x)    == <<Abs(x[1]), x[2]>>
RMin(x, y) == IF RLe(x, y) THEN x ELSE y
RMax(x, y) == IF RLe(x, y) THEN y ELSE x

\* ------------------------------------------------------------------ state
VARIABLES
    kind, target, byte_diff, m, osize,          \* the call's inputs
    probe,                                      \* what the file system does to the probe file
    pc,                                         \* position in the function
    ratio, psize, scale, i, diff, diff_ratio, imgsize,
    best_scale, best_diff, best_size, a, b,     \* the function's locals
    lscale,                                     \* the local lscale of lines 259 / 421
    fsize,                                      \* length of the file save_name
    enc,                                        \* sizes of img encoded at the scales tried
    hist, cycles, exitBy, lastDraw, retained,   \* history of the run
    out_scale, out_size                         \* the final output

vars == <<kind, target, byte_diff, m, osize, probe, pc, ratio, psize, scale, i, diff,
          diff_ratio, imgsize, best_scale, best_diff, best_size, a, b, lscale, fsize,
          enc, hist, cycles, exitBy, lastDraw, retained, out_scale, out_size>>

inputs == <<kind, target, byte_diff, m, osize, probe>>

\* -------------------------------------------------------- pure operators
\* raw decoded pixel bytes of the probe: to_rgba8 of the image, to_rgb8 of every frame
RawBytes(k) == IF k = "image" THEN ImgW * ImgH * 4 ELSE NFrames * ImgW * ImgH * 3

\* fs::metadata(probe).len() / raw pixel bytes
find_compression_ratio(len, k) == Rat(len, RawBytes(k))

\* (w * scale) as u32: the cast truncates, and saturates at 0 below zero
Dim(w, s) == IF s[1] < 0 THEN 0 ELSE (w * s[1]) \div s[2]

\* the probe file: written and read back ("ok"); the write fails and no file is
\* at the path ("write_fails"); the write fails and a file of an earlier run is
\* still at the path ("write_fails_stale"); the read fails ("read_fails")
ProbeOutcomes == {"ok", "write_fails", "write_fails_stale", "read_fails"}

\* lines 156-157: img.save(&fstr)? and image::open(&fstr)?
ImageProbeOk(p) == p = "ok"

\* lines 178-179: the result of save_gif is dropped, File::open(&fstr)? is not
GifProbeOk(p) == p \in {"ok", "write_fails_stale"}

\* lines 200 / 363: find_compression_ratio(..)? and find_gif_compression_ratio(..)?
ProbeOk(k, p) == IF k = "image" THEN ImageProbeOk(p) ELSE GifProbeOk(p)

\* the file written before the loop: the image variant resizes the re-decoded
\* probe, whose encoding need not have the original's length; the gif variant
\* measures and resizes the same frames
FirstSizes(k, o) == IF k = "gif" THEN {o} ELSE {o, o - 10}

\* lines 225 / 387
WidenCond(t, o) == t > o

\* lines 227 / 389
\* slip: the quotient inverted
WidenB_Inverted(t, o) == Rat(21 * o, 20 * t)

WidenB(t, o) == Rat(21 * t, 20 * o)

\* slip: the last || written as &&
WhileGuard_AndSize(d, bd, dr, it, fs, t) ==
    ((Abs(d) > bd \/ dr # One \/ RLt(One, dr)) \/ it = 0) /\ fs > t

\* slip: the file-size disjunct left out
WhileGuard_NoSize(d, bd, dr, it, fs, t) ==
    (Abs(d) > bd \/ dr # One \/ RLt(One, dr)) \/ it = 0

\* lines 231-233 / 393-395
WhileGuard(d, bd, dr, it, fs, t) ==
    (Abs(d) > bd \/ dr # One \/ RLt(One, dr)) \/ it = 0 \/ fs > t

\* slip: <= lets a later candidate of equal size replace the first
BestUpdate_Ties(d, bdiff) == Abs(d) <= Abs(bdiff) /\ d < 0

\* slip: the sign test left out
BestUpdate_NoSign(d, bdiff) == Abs(d) < Abs(bdiff)

\* lines 239 / 401
BestUpdate(d, bdiff) == Abs(d) < Abs(bdiff) /\ d < 0

\* (1.0 - (a.min(b) / a.max(b))).abs() < 0.05; a zero divisor gives NaN or an infinity
Collapsed(x, y) ==
    LET lo == RMin(x, y)
        hi == RMax(x, y)
    IN  IF hi[1] = 0 THEN FALSE
        ELSE \* |1 - lo/hi| < 1/20, both sides multiplied by |hi| and the denominators
             20 * Abs(hi[1] * lo[2] - lo[1] * hi[2]) < Abs(hi[1]) * lo[2]

\* slip: the test of the ceiling left out
TerminalCheck_NoCeiling(it, mm, x, y, d, bd) == Collapsed(x, y) \/ Abs(d) < bd

\* lines 246 / 408
TerminalCheck(it, mm, x, y, d, bd) == it > mm \/ Collapsed(x, y) \/ Abs(d) < bd

\* slips: the sign of the step
NarrowA_Plus(s, it) == RAdd(s, <<1, it + 2>>)
NarrowB_Minus(s, it) == RSub(s, <<1, it + 2>>)

\* lines 261 / 423 and 263 / 425
NarrowA(s, it) == RSub(s, <<1, it + 2>>)
NarrowB(s, it) == RAdd(s, <<1, it + 2>>)

\* rng.gen_range(a..b): sample points of the half-open range
Grid == {<<1, 4>>, <<1, 2>>, One, <<5, 4>>}
\* slip: sampling from 0.0..b
GenRange_FromZero(lo, hi) == {x \in ({Zero} \cup Grid) : RLe(Zero, x) /\ RLt(x, hi)}

GenRange(lo, hi) == {x \in ({lo} \cup Grid) : RLe(lo, x) /\ RLt(x, hi)}

\* lines 266 / 428 and 268 / 430: the two branches of the test on diff_ratio
DrawBelow(lo, hi) == GenRange(lo, hi)
DrawAtLeast(lo, hi) == GenRange(lo, hi)
DrawRange(dr, lo, hi) == IF RLt(dr, One) THEN DrawBelow(lo, hi) ELSE DrawAtLeast(lo, hi)

\* slip: the test of the draw's sign left out
Retain_NoGuard(draw, ls) == draw

\* lines 270-272 / 432-434
Retain(draw, ls) == IF RLt(draw, Zero) THEN ls ELSE draw

\* sizes the codec can give img at scale s, given what it gave so far
NewSizes(e, s) ==
    IF s \in DOMAIN e THEN {e[s]}
    ELSE {z \in EncSizes : \A t \in DOMAIN e :
              /\ RLe(t, s) => e[t] <= z
              /\ RLe(s, t) => z <= e[t]}

\* ------------------------------------------------------------------- Init
Init ==
    /\ kind \in Kinds
    /\ target \in TargetSet
    /\ byte_diff \in ToleranceSet
    /\ m = MaxIter
    /\ osize \in OsizeSet
    /\ probe \in ProbeOutcomes
    /\ pc = "entry"
    /\ ratio = Zero /\ psize = 0 /\ scale = One /\ i = 0 /\ diff = 0
    /\ diff_ratio = Zero /\ imgsize = 0
    /\ best_scale = One /\ best_diff = F64_MAX /\ best_size = 0
    /\ a = Zero /\ b = One /\ lscale = One
    /\ fsize = 0
    /\ enc = (One :> osize)
    /\ hist = <<>> /\ cycles = 0 /\ exitBy = "none"
    /\ lastDraw = Zero /\ retained = FALSE
    /\ out_scale = Zero /\ out_size = 0

\* ---------------------------------------------------------------- actions
\* lines 194-228 / 352-390
Setup ==
    /\ pc = "entry"
    /\ ProbeOk(kind, probe)
    /\ ratio' = find_compression_ratio(osize, kind)
    /\ psize' = IF osize < target THEN target ELSE osize
    /\ scale' = One
    /\ \E r \in FirstSizes(kind, osize) : fsize' = r
    /\ i' = 0 /\ diff_ratio' = Zero /\ diff' = 0
    /\ imgsize' = psize'
    /\ best_scale' = One /\ best_diff' = F64_MAX /\ best_size' = psize'
    /\ IF WidenCond(target, osize)
         THEN a' = One /\ b' = WidenB(target, osize)
         ELSE a' = Zero /\ b' = One
    /\ cycles' = 1
    /\ pc' = "loop"
    /\ UNCHANGED <<inputs, lscale, enc, hist, exitBy, lastDraw, retained, out_scale,
                   out_size>>

\* lines 200 / 363: the estimator's error is returned to the caller
ProbeError ==
    /\ pc = "entry"
    /\ ~ProbeOk(kind, probe)
    /\ pc' = "failed"
    /\ UNCHANGED <<inputs, ratio, psize, scale, i, diff, diff_ratio, imgsize,
                   best_scale, best_diff, best_size, a, b, lscale, fsize, enc, hist,
                   cycles, exitBy, lastDraw, retained, out_scale, out_size>>

\* lines 235-244 / 397-406: the values after the measurement and the best-known update
M_diff == fsize - target
M_ratio == Rat(fsize * ratio[1], ratio[2] * target)
M_upd == BestUpdate(M_diff, best_diff)

Measure ==
    /\ imgsize' = fsize
    /\ diff' = M_diff
    /\ diff_ratio' = M_ratio
    /\ best_scale' = IF M_upd THEN scale ELSE best_scale
    /\ best_diff' = IF M_upd THEN M_diff ELSE best_diff
    /\ best_size' = IF M_upd THEN fsize ELSE best_size
    /\ hist' = Append(hist, <<scale, fsize>>)

\* one pass of the loop that does not break: lines 231-282 / 393-440
Iterate ==
    /\ pc = "loop"
    /\ WhileGuard(diff, byte_diff, diff_ratio, i, fsize, target)
    /\ Measure
    /\ ~TerminalCheck(i, m, a, b, M_diff, byte_diff)
    /\ cycles <= MaxCycles
    /\ lscale' = scale
    /\ LET na == IF fsize < target THEN NarrowA(scale, i) ELSE a
           nb == IF fsize < target THEN b ELSE NarrowB(scale, i)
       IN  /\ a' = na
           /\ b' = nb
           /\ IF DrawRange(M_ratio, na, nb) = {}
                THEN \* gen_range panics on an empty range
                     /\ pc' = "panic"
                     /\ UNCHANGED <<scale, fsize, enc, i, cycles, lastDraw, retained>>
                ELSE \E draw \in DrawRange(M_ratio, na, nb) :
                       LET ns == Retain(draw, scale)
                           zero == Dim(ImgW, ns) = 0 \/ Dim(ImgH, ns) = 0
                       IN  /\ lastDraw' = draw
                           /\ retained' = RLt(draw, Zero)
                           /\ scale' = ns
                           /\ cycles' = cycles + 1
                           /\ \E ok \in (IF zero THEN {TRUE, FALSE} ELSE {TRUE}) :
                                IF ok
                                  THEN \E z \in NewSizes(enc, ns) :
                                         /\ fsize' = z
                                         /\ enc' = (ns :> z) @@ enc
                                         /\ i' = i + 1
                                         /\ pc' = "loop"
                                  ELSE \* an image without pixels cannot be saved
                                       /\ pc' = "error"
                                       /\ UNCHANGED <<fsize, enc, i>>
    /\ UNCHANGED <<inputs, ratio, psize, exitBy, out_scale, out_size>>

\* the pass that ends at the break of line 247 / 409
BreakOut ==
    /\ pc = "loop"
    /\ WhileGuard(diff, byte_diff, diff_ratio, i, fsize, target)
    /\ Measure
    /\ TerminalCheck(i, m, a, b, M_diff, byte_diff)
    /\ pc' = "stopped"
    /\ exitBy' = "break"
    /\ UNCHANGED <<inputs, ratio, psize, scale, i, a, b, lscale, fsize, enc, cycles,
                   lastDraw, retained, out_scale, out_size>>

\* the while condition of line 231 / 393 is false
GuardExit ==
    /\ pc = "loop"
    /\ ~WhileGuard(diff, byte_diff, diff_ratio, i, fsize, target)
    /\ pc' = "stopped"
    /\ exitBy' = "guard"
    /\ UNCHANGED <<inputs, ratio, psize, scale, i, diff, diff_ratio, imgsize,
                   best_scale, best_diff, best_size, a, b, lscale, fsize, enc, hist,
                   cycles, lastDraw, retained, out_scale, out_size>>

\* slip: the output resized at the last-tried scale
Finish_LastScale ==
    /\ pc = "stopped"
    /\ out_scale' = scale
    /\ out_size' = enc[scale]
    /\ pc' = "done"
    /\ UNCHANGED <<inputs, ratio, psize, scale, i, diff, diff_ratio, imgsize,
                   best_scale, best_diff, best_size, a, b, lscale, fsize, enc, hist,
                   cycles, exitBy, lastDraw, retained>>

\* lines 289-327 / 447-484: resize at best_scale and save the output
Finish ==
    /\ pc = "stopped"
    /\ out_scale' = best_scale
    /\ out_size' = enc[best_scale]
    /\ pc' = "done"
    /\ UNCHANGED <<inputs, ratio, psize, scale, i, diff, diff_ratio, imgsize,
                   best_scale, best_diff, best_size, a, b, lscale, fsize, enc, hist,
                   cycles, exitBy, lastDraw, retained>>

Next == Setup \/ ProbeError \/ Iterate \/ BreakOut \/ GuardExit \/ Finish

Spec == Init /\ [][Next]_vars

\* the function is sequential code: it keeps executing until it returns
FairSpec == Spec /\ WF_vars(Next)

TypeOK ==
    /\ pc \in {"entry", "failed", "loop", "stopped", "done", "panic", "error"}
    /\ i \in 0..(m + 1)
    /\ best_scale \in DOMAIN enc

\* ---------------------------------------------------------------- claims
Measured == {hist[k] : k \in 1..Len(hist)}
UnderIdx(h) == {k \in 1..Len(h) : h[k][2] < target}

\* C1: if some measured candidate (the unscaled one included) had an encoded
\* size <= target, the final output, made at Best-Known's scale, has size <= target.
C1_FinalWithinTarget ==
    (pc = "done" /\ \E c \in Measured : c[2] <= target) => out_size <= target

\* C2 as stated: when the unscaled size exceeds the target, the final output
\* is never larger than target + byte_tolerance.
C2_FinalWithinTolerance ==
    (pc = "done" /\ osize > target) => out_size <= target + byte_diff

\* C2 amended: when the unscaled size exceeds the target, the final output is
\* at most target + byte_tolerance unless Best-Known's scale is still 1.0, and
\* then the output is the unscaled image, of size osize.
C2_FinalWithinToleranceOrUnscaled ==
    (pc = "done" /\ osize > target) =>
        \/ out_size <= target + byte_diff
        \/ out_scale = One /\ out_size = osize

C2_Witness ==
    /\ pc = "done" /\ osize > target
    /\ out_scale # One /\ out_scale # scale /\ out_size < target

\* the first candidate of h with the largest size strictly below target
FirstBestIdx(h) ==
    CHOOSE k \in UnderIdx(h) :
        \A l \in UnderIdx(h) : h[l][2] < h[k][2] \/ (h[l][2] = h[k][2] /\ k <= l)

ExpectedBestScale(h) == IF UnderIdx(h) = {} THEN One ELSE h[FirstBestIdx(h)][1]

\* C3: the final output is made at best_scale, and best_scale is the scale of
\* the first measured candidate with the largest size strictly below target,
\* or 1.0 when no measured candidate was below target.
C3_FinalAtBestScale ==
    pc = "done" => out_scale = best_scale /\ best_scale = ExpectedBestScale(hist)

C3_Witness ==
    /\ pc = "done" /\ out_scale # scale
    /\ \E k, l \in UnderIdx(hist) : k < l /\ hist[k][2] = hist[l][2]
                                     /\ hist[k][1] # hist[l][1]
                                     /\ out_scale = hist[k][1]

\* C4: |best_diff| never grows from one step to the next, and Best-Known is
\* overwritten only by a measured candidate of size < target whose deficit is
\* strictly smaller than the current one.
C4_MonotoneBest ==
    [][ pc # "entry" =>
          /\ Abs(best_diff') <= Abs(best_diff)
          /\ <<best_scale, best_diff, best_size>>' # <<best_scale, best_diff, best_size>>
               => /\ fsize < target
                  /\ Abs(fsize - target) < Abs(best_diff)
                  /\ best_diff' = fsize - target
                  /\ best_size' = fsize
                  /\ best_scale' = scale ]_vars

C4_Witness ==
    /\ pc = "loop"
    /\ \E k, l \in UnderIdx(hist) : k < l /\ hist[k][2] < hist[l][2]
                                     /\ best_size = hist[l][2]
                                     /\ best_diff = hist[l][2] - target

\* C5: every scale chosen for a resize in the loop (the draw, or the previous
\* scale kept after a negative draw) lies in [min(a,b), max(a,b)] of the
\* bracket it was sampled from.
C5_BracketContainment ==
    cycles > 1 => RLe(RMin(a, b), scale) /\ RLe(scale, RMax(a, b))

C5_Witness == cycles > 1 /\ retained /\ RLt(lastDraw, Zero) /\ pc = "loop"

\* C6: the Init cycle plus the cycles of the loop never number more than m + 1.
C6_CeilingRespected == cycles <= m + 1

\* C7 as stated: the loop is never left while the iteration counter is 0.
C7_NoStopAtZero == pc \in {"stopped", "done"} => i > 0

\* C7 amended: the while-guard never ends the loop while the counter is 0; the
\* unscaled candidate is always measured, and the loop is left at counter 0
\* only by the terminal check, with no new candidate drawn.
C7_StopAtZeroOnlyByBreak ==
    (pc \in {"stopped", "done"} /\ i = 0) =>
        exitBy = "break" /\ Len(hist) = 1 /\ cycles = 1

C7_Witness == pc = "stopped" /\ i = 0 /\ exitBy = "break"

\* C8 as stated: the loop is left with an over-target current candidate only
\* when the counter has passed the ceiling.
C8_OverTargetOnlyPastCeiling == (pc = "stopped" /\ fsize > target) => i > m

\* C8 amended: the while-guard never ends the loop while the current file is
\* over target; with an over-target current candidate the loop is left only by
\* the terminal check (counter past the ceiling, bracket collapsed, or
\* |diff| < tolerance).
C8_OverTargetOnlyByBreak ==
    (pc = "stopped" /\ fsize > target) =>
        /\ exitBy = "break"
        /\ i > m \/ Collapsed(a, b) \/ Abs(diff) < byte_diff

C8_Witness == pc = "stopped" /\ fsize > target /\ i <= m /\ i > 0

\* C9: the search stops as soon as a measured candidate is within the byte
\* threshold of the target, |size - target| <= threshold: while the loop is
\* still running, the last measured candidate is outside the threshold.
C9_StopsWithinThreshold == (pc = "loop" /\ Len(hist) > 0) => Abs(diff) > byte_diff

\* C10 as stated: whenever target >= osize, Init leaves a = 1.0 and
\* b = (target / osize) * 1.05 > 1.0.
C10_WidenedWhenAtLeast ==
    (pc = "loop" /\ i = 0 /\ target >= osize) =>
        a = One /\ b = Rat(21 * target, 20 * osize) /\ RLt(One, b)

\* C10 amended: whenever target > osize, Init leaves a = 1.0 and
\* b = (target / osize) * 1.05 > 1.0; with target = osize the bracket stays
\* (0.0, 1.0).
C10_WidenedWhenAbove ==
    (pc = "loop" /\ i = 0) =>
        /\ target > osize => a = One /\ b = Rat(21 * target, 20 * osize) /\ RLt(One, b)
        /\ target = osize => a = Zero /\ b = One

C10_Witness == pc = "loop" /\ i = 0 /\ target > osize /\ a = One

\* C11: no resize of a search call, in the loop or for the final output, is
\* made with a width or height of zero: floor(width * scale) >= 1 and
\* floor(height * scale) >= 1 for every scale the engine resizes at.
C11_NoZeroResize ==
    /\ cycles >= 1 => Dim(ImgW, scale) >= 1 /\ Dim(ImgH, scale) >= 1
    /\ pc = "done" => Dim(ImgW, out_scale) >= 1 /\ Dim(ImgH, out_scale) >= 1

\* C12: when writing or reading the probe file fails, the search returns the
\* error: no candidate is encoded, no pass of the loop runs, no output is written.
C12_ProbeFailureIsFatal ==
    probe # "ok" => pc \in {"entry", "failed"} /\ cycles = 0 /\ hist = <<>>

\* a pass of the loop that went on to the bracket update
IterateStep == pc = "loop" /\ hist' # hist /\ pc' # "stopped"

\* C13 as stated: the bracket update of a pass that does not stop narrows the
\* bracket: a rises (b unchanged) when imgsize < target, else b falls (a unchanged).
C13_UpdateNarrows ==
    [][ IterateStep =>
          IF fsize < target THEN RLe(a, a') /\ b' = b
                            ELSE RLe(b', b) /\ a' = a ]_vars

\* C13 amended: the update moves one bound, a to scale - 1/(i+2) when
\* imgsize < target and b to scale + 1/(i+2) otherwise, and leaves the other;
\* the moved bound may lie outside the previous bracket, the width grows by at
\* most 1/(i+2), and the current scale stays inside the bracket.
C13_UpdateMovesOneBound ==
    [][ IterateStep =>
          /\ IF fsize < target
               THEN a' = RSub(scale, <<1, i + 2>>) /\ b' = b /\ RLt(a', scale)
               ELSE b' = RAdd(scale, <<1, i + 2>>) /\ a' = a /\ RLt(scale, b')
          /\ RLe(a', scale) /\ RLe(scale, b')
          /\ RLe(RSub(b', a'), RAdd(RSub(b, a), <<1, i + 2>>)) ]_vars

C13_Witness == pc = "loop" /\ i = 1 /\ ~WidenCond(target, osize) /\ RLt(One, b)

\* C14: the iteration counter satisfies 0 <= i <= m in every reachable state,
\* and changes only by +1.
C14_CounterWithinCeiling ==
    [](i >= 0 /\ i <= m) /\ [][i' = i + 1]_i

\* C15: every search call without a codec or I/O error terminates: the loop
\* is left after finitely many passes and the final step is reached.
C15_Terminates == <>(pc \in {"done", "error", "failed"})

C15_Witness == pc = "done" /\ i = m + 1

\* C16: every scale the engine resizes at is >= 0; after a negative draw the
\* scale is the scale of the previous pass, and a non-negative draw is used unchanged.
C16_ScaleNonNegative ==
    /\ RLe(Zero, scale) /\ RLe(Zero, best_scale)
    /\ pc = "done" => RLe(Zero, out_scale)
    /\ cycles > 1 => scale = (IF RLt(lastDraw, Zero) THEN lscale ELSE lastDraw)

C16_Witness ==
    /\ cycles > 1 /\ RLt(lastDraw, Zero) /\ scale = lscale /\ RLt(Zero, scale)
    /\ pc = "done"

\* C18: whenever the engine draws from a..b, a < b holds strictly, so the draw
\* cannot fail, and a <= scale <= b at the head of every pass of the loop.
C18_RangeNeverEmpty ==
    /\ pc # "panic"
    /\ pc = "loop" => RLt(a, b) /\ RLe(a, scale) /\ RLe(scale, b)

C18_Witness ==
    pc = "loop" /\ i = m /\ WidenCond(target, osize) /\ RLt(a, One) /\ RLt(One, scale)

\* C19: the loop is left only through the terminal check, so every candidate
\* that was encoded has been measured and offered to Best-Known before the
\* final output is made.
C19_LeftOnlyByTerminalCheck ==
    pc \in {"stopped", "done"} => exitBy = "break" /\ Len(hist) = cycles

\* C20: when the loop has ended, best_size is the encoded size that was
\* measured for the candidate resized at best_scale.
C20_BestSizeIsMeasured ==
    pc \in {"stopped", "done"} =>
        \E c \in Measured : c[1] = best_scale /\ c[2] = best_size
====
